---------------------------- MODULE Spec2Model ----------------------------
(***************************************************************************)
(* Model of amset/scattering/basic.py: the three basic scattering          *)
(* mechanisms (ConstantRelaxationTime, MeanFreePathScattering,             *)
(* BrooksHerringScattering) and the helpers get_normalized_energies and    *)
(* get_dos_effective_masses, run against an AmsetData dataset.             *)
(*                                                                         *)
(* Number conventions                                                      *)
(*   energies    integers, unit 5e-9 of the dataset's energy unit          *)
(*               (so the 1e-8 threshold is 2 and 1.0 is 200000000)         *)
(*   velocities  integers, unit 1e-3 of the dataset's velocity unit        *)
(*               (so the 0.005 floor is 5); velocities_product holds       *)
(*               products of two such numbers                              *)
(*   MFP / CRT rates are exact rationals [num, den]; an MFP rate is the    *)
(*               coefficient of Second * 1e-3                              *)
(*   Brooks-Herring rates are floating point values of a formula with a    *)
(*               logarithm; each is kept as the set of IEEE classes        *)
(*               (nan, ninf, neg, zero, pos, pinf) the value can fall in,  *)
(*               together with the operands that determine it.             *)
(* numpy arrays are records [shape, data, base]: data maps 0-based index   *)
(* tuples to values, base says whose memory the array uses (its own, or    *)
(* that of the dataset field it is a reference to or a view of).           *)
(***************************************************************************)
EXTENDS Integers, Sequences, FiniteSets, TLC

VARIABLES
    amset_data,            \* the AmsetData dataset handed to every call
    materials_properties,  \* the caller's materials-properties mapping
    screening_sq,          \* what calculate_inverse_screening_length_sq returns
    op,                    \* the last operation that ran
    inst,                  \* the mechanism instance the last constructor produced
    raised,                \* the exception the last operation raised
    ret                    \* the value the last helper call returned

vars == <<amset_data, materials_properties, screening_sq, op, inst, raised, ret>>

---------------------------------------------------------------------------
(* Bounds of the model                                                     *)

MaxDoping == 2
MaxTemps == 2
NumBands == 2
NumKpoints == 3

---------------------------------------------------------------------------
(* Program constants                                                       *)

\* v[v < 0.005] = 0.005, in 1e-3 velocity units
VelocityFloor == 5
\* energies < 1e-8, in 5e-9 energy units
EnergyZeroThreshold == 2
\* nm_to_bohr = 18.897 as the rational NmToBohrNum / NmToBohrDen
NmToBohrNum == 18897
NmToBohrDen == 1000

SpinNames == <<"up", "down">>

CRTRequired == <<"constant_relaxation_time">>
MFPRequired == <<"mean_free_path">>
IMPRequired == <<"acceptor_charge", "donor_charge", "static_dielectric">>

---------------------------------------------------------------------------
(* Exact rationals [num, den] with den > 0; den = 0 holds the IEEE results *)
(* of a division by zero: 1/0 is inf, -1/0 is -inf, 0/0 is nan.            *)

Abs(x) == IF x < 0 THEN -x ELSE x

RECURSIVE Gcd(_, _)
Gcd(a, b) == IF b = 0 THEN a ELSE Gcd(b, a % b)

Rat(n, d) ==
    IF d = 0
    THEN [num |-> (IF n > 0 THEN 1 ELSE IF n < 0 THEN -1 ELSE 0), den |-> 0]
    ELSE LET g == Gcd(Abs(n), Abs(d))
             s == IF d < 0 THEN -1 ELSE 1
         IN  [num |-> (s * n) \div g, den |-> (s * d) \div g]

IsFiniteRat(x) == x.den # 0

RatLE(x, y) == x.num * y.den <= y.num * x.den

\* the integer square root; exact on the perfect squares the datasets hold
Sqrt(n) == CHOOSE r \in 0 .. n : r * r <= n /\ (r + 1) * (r + 1) > n

---------------------------------------------------------------------------
(* numpy arrays                                                            *)

RECURSIVE Idx(_)
Idx(shape) ==
    IF shape = <<>> THEN {<<>>}
    ELSE {<<i>> \o r : i \in 0 .. (shape[1] - 1), r \in Idx(Tail(shape))}

Front(s) == SubSeq(s, 1, Len(s) - 1)
Last(s) == s[Len(s)]

\* memory ownership: <<>> is an array owning its data, <<field, spin>> is the
\* dataset's array amset_data.field[spin] itself, anything longer a view
Own == <<>>

\* np.full(shape, value)
NpFull(shape, value) ==
    [shape |-> shape, data |-> [i \in Idx(shape) |-> value], base |-> Own]

\* amset_data.<field>[spin]: the dataset's own array object, not a copy
DataRef(ds, field, spin) ==
    [shape |-> ds[field][spin].shape, data |-> ds[field][spin].data,
     base |-> <<field, spin>>]

\* a[..., idx] with idx an integer sequence: advanced indexing, always a copy
TakeLast(a, idx) ==
    [shape |-> Front(a.shape) \o <<Len(idx)>>,
     data |-> [i \in Idx(Front(a.shape) \o <<Len(idx)>>) |->
                  a.data[Front(i) \o <<idx[Last(i) + 1]>>]],
     base |-> Own]

\* np.diagonal(a, axis1=1, axis2=2) of an (n, 3, 3, k) array: an (n, k, 3)
\* view of a
Diagonal12(a) ==
    [shape |-> <<a.shape[1], a.shape[4], a.shape[2]>>,
     data |-> [i \in Idx(<<a.shape[1], a.shape[4], a.shape[2]>>) |->
                  a.data[<<i[1], i[3], i[3], i[2]>>]],
     base |-> a.base \o <<"diagonal">>]

\* np.sqrt(a): a new array
NpSqrt(a) ==
    [shape |-> a.shape, data |-> [i \in Idx(a.shape) |-> Sqrt(a.data[i])],
     base |-> Own]

\* np.linalg.norm(a, axis=2) of an (n, k, 3) array: a new (n, k) array
NormAxis2(a) ==
    [shape |-> <<a.shape[1], a.shape[2]>>,
     data |-> [i \in Idx(<<a.shape[1], a.shape[2]>>) |->
                  Sqrt(a.data[i \o <<0>>] * a.data[i \o <<0>>]
                       + a.data[i \o <<1>>] * a.data[i \o <<1>>]
                       + a.data[i \o <<2>>] * a.data[i \o <<2>>])],
     base |-> Own]

\* np.tile(a, (n, t, 1, 1)) of a 2-d array: a new (n, t) + a.shape array
Tile4(a, n, t) ==
    [shape |-> <<n, t>> \o a.shape,
     data |-> [i \in Idx(<<n, t>> \o a.shape) |-> a.data[<<i[3], i[4]>>]],
     base |-> Own]

\* the dataset after an in-place write of new_data into array a: the write
\* lands in the dataset when a is one of the dataset's own arrays
WriteThrough(ds, a, new_data) ==
    IF Len(a.base) = 2
    THEN [ds EXCEPT ![a.base[1]][a.base[2]].data = new_data]
    ELSE ds

---------------------------------------------------------------------------
(* The AmsetData dataset and the caller's inputs.  A dataset is built from *)
(* a parameter record p; the per-band, per-k-point quantities are taken    *)
(* from short catalogues, so that band edges, energies just above an edge, *)
(* vanishing velocities and vanishing masses all occur.                    *)

Pick(cat, i) == cat[(i % Len(cat)) + 1]

\* valence-band maximum and conduction-band minimum levels (0.0 and 1.0)
BandEdges == <<0, 200000000>>
\* distance below the valence level: 0.5, 0, 1.5e-8, 5e-9
ValenceOffsets == <<100000000, 0, 3, 1>>
\* distance above the conduction level: 1e-8, 0.2, 0, 5e-9
ConductionOffsets == <<2, 40000000, 0, 1>>
\* group velocity vectors; their norms are 0, 5, 4, 7, 10, 10
VelocityVectors ==
    << <<0, 0, 0>>, <<-3, 4, 0>>, <<0, 0, 4>>, <<2, 3, 6>>, <<0, 6, 8>>, <<0, 0, 10>> >>
\* principal effective masses
MassDiagonals == << <<1, 2, 4>>, <<0, 1, 1>>, <<-1, 1, 8>>, <<1, 1, 1>> >>
CFactors == <<1, 0, -1, 2>>
ElectronConcs == <<-2, 0, 3, 1>>
HoleConcs == <<1, 0, 0, 2>>
FermiValues == <<10, 20, 30>>
DopingValues == <<-1, 2, -3, 4>>
TemperatureValues == <<300, 400, 500, 600>>
ScreeningValues == <<1, 0, 2>>

Spins(p) == SubSeq(SpinNames, 1, p.nspins)
SpinSet(ds) == {ds.spins[i] : i \in 1 .. Len(ds.spins)}
SpinPos(s) == CHOOSE i \in 1 .. Len(SpinNames) : SpinNames[i] = s

EnergyAt(p, s, b, k) ==
    IF b <= p.vb[SpinPos(s)]
    THEN BandEdges[1] - Pick(ValenceOffsets, k + b + p.eshift + (SpinPos(s) - 1))
    ELSE BandEdges[2] + Pick(ConductionOffsets, k + b + p.eshift + 2 * (SpinPos(s) - 1))

VelocityAt(p, s, b, k) == Pick(VelocityVectors, k + b + p.vshift + (SpinPos(s) - 1))

MassAt(p, s, b, k) == Pick(MassDiagonals, k + b + p.mshift + (SpinPos(s) - 1))

GridArray(shape, cat, shift) ==
    [shape |-> shape,
     data |-> [i \in Idx(shape) |-> Pick(cat, i[1] + i[2] + shift)],
     base |-> Own]

MkDataset(p) ==
    [spins |-> Spins(p),
     doping |-> [n \in 1 .. p.nd |-> Pick(DopingValues, n - 1)],
     temperatures |-> [t \in 1 .. p.nt |-> Pick(TemperatureValues, t - 1)],
     energies |->
        [s \in {SpinNames[i] : i \in 1 .. p.nspins} |->
            [shape |-> <<NumBands, NumKpoints>>,
             data |-> [i \in Idx(<<NumBands, NumKpoints>>) |-> EnergyAt(p, s, i[1], i[2])],
             base |-> Own]],
     velocities_product |->
        [s \in {SpinNames[i] : i \in 1 .. p.nspins} |->
            [shape |-> <<NumBands, 3, 3, NumKpoints>>,
             data |-> [i \in Idx(<<NumBands, 3, 3, NumKpoints>>) |->
                          VelocityAt(p, s, i[1], i[4])[i[2] + 1]
                          * VelocityAt(p, s, i[1], i[4])[i[3] + 1]],
             base |-> Own]],
     effective_mass |->
        [s \in {SpinNames[i] : i \in 1 .. p.nspins} |->
            [shape |-> <<NumBands, 3, 3, NumKpoints>>,
             data |-> [i \in Idx(<<NumBands, 3, 3, NumKpoints>>) |->
                          IF i[2] = i[3] THEN MassAt(p, s, i[1], i[4])[i[2] + 1] ELSE 7],
             base |-> Own]],
     c_factor |->
        [s \in {SpinNames[i] : i \in 1 .. p.nspins} |->
            [shape |-> <<NumBands, NumKpoints>>,
             data |-> [i \in Idx(<<NumBands, NumKpoints>>) |->
                          Pick(CFactors, i[1] + i[2] + p.cshift + (SpinPos(s) - 1))],
             base |-> Own]],
     fermi_levels |-> GridArray(p.fshape, FermiValues, 0),
     electron_conc |-> GridArray(p.cshape, ElectronConcs, p.nshift),
     hole_conc |-> GridArray(p.cshape, HoleConcs, p.nshift),
     ir_kpoints_idx |-> p.ir,
     ir_to_full_kpoint_mapping |-> p.map,
     is_metal |-> p.metal,
     vb_idx |-> [s \in {SpinNames[i] : i \in 1 .. p.nspins} |-> p.vb[SpinPos(s)]],
     intrinsic_fermi_level |-> p.ifl]

---------------------------------------------------------------------------
(* Outcomes of a call                                                      *)

NoError == [type |-> "none", arg |-> ""]
NoInstance == [name |-> "none"]
NoValue == [kind |-> "none"]

SetMax(S) == CHOOSE x \in S : \A y \in S : y <= x
SetMin(S) == CHOOSE x \in S : \A y \in S : x <= y

---------------------------------------------------------------------------
(* get_normalized_energies                                                 *)

\* a maximum taken over the irreducible k-points only
ValenceValuesOnIrreducible(ds, s) ==
    {ds.energies[s].data[<<b, ds.ir_kpoints_idx[j]>>] :
        b \in 0 .. ds.vb_idx[s], j \in 1 .. Len(ds.ir_kpoints_idx)}

\* np.max(amset_data.energies[s][: vb_idx[s] + 1]): the values it ranges over
ValenceValues(ds, s) ==
    {ds.energies[s].data[i] : i \in {j \in Idx(ds.energies[s].shape) : j[1] <= ds.vb_idx[s]}}

\* np.min(amset_data.energies[s][vb_idx[s] + 1 :]): the values it ranges over
ConductionValues(ds, s) ==
    {ds.energies[s].data[i] : i \in {j \in Idx(ds.energies[s].shape) : j[1] > ds.vb_idx[s]}}

\* spin_energies bound to the dataset's own array
SpinEnergiesAliased(ds, spin) == DataRef(ds, "energies", spin)

\* spin_energies = deepcopy(amset_data.energies[spin][:, ir_kpoints_idx])
SpinEnergiesCopy(ds, spin) ==
    TakeLast(DataRef(ds, "energies", spin), ds.ir_kpoints_idx)

\* the two slice assignments of the non-metallic branch, as the new contents
\* of spin_energies
EdgeDistances(se, vb, vbm_e, cbm_e) ==
    [i \in Idx(se.shape) |->
        IF i[1] <= vb THEN vbm_e - se.data[i] ELSE se.data[i] - cbm_e]

\* np.abs(spin_energies - amset_data.intrinsic_fermi_level)
FermiDistances(se, ifl) == [i \in Idx(se.shape) |-> Abs(se.data[i] - ifl)]

\* energies[spin] = np.empty(fermi_shape + (nbands, n_ir)), then filled slice
\* by slice with the (nbands, n_ir) contents d
FillSlices(ds, spin, d) ==
    [shape |-> ds.fermi_levels.shape
                \o <<ds.energies[spin].shape[1], Len(ds.ir_kpoints_idx)>>,
     data |-> [i \in Idx(ds.fermi_levels.shape
                         \o <<ds.energies[spin].shape[1], Len(ds.ir_kpoints_idx)>>) |->
                  d[<<i[3], i[4]>>]],
     base |-> Own]

\* the dataset after the loop over the spins spins[n..] of the non-metallic
\* branch: each spin's slice assignments are in-place writes to spin_energies
RECURSIVE NormalizeWrites(_, _, _, _)
NormalizeWrites(ds, n, vbm_e, cbm_e) ==
    IF n > Len(ds.spins) THEN ds
    ELSE LET spin == ds.spins[n]
             se == SpinEnergiesCopy(ds, spin)
         IN  NormalizeWrites(
                 WriteThrough(ds, se, EdgeDistances(se, ds.vb_idx[spin], vbm_e, cbm_e)),
                 n + 1, vbm_e, cbm_e)

get_normalized_energies(ds) ==
    IF ds.is_metal
    THEN [raised |-> NoError, ds |-> ds,
          value |-> [spin \in SpinSet(ds) |->
                       FillSlices(ds, spin,
                           FermiDistances(SpinEnergiesCopy(ds, spin),
                                          ds.intrinsic_fermi_level))]]
    ELSE IF \E s \in SpinSet(ds) : ValenceValues(ds, s) = {} \/ ConductionValues(ds, s) = {}
    THEN [raised |-> [type |-> "ValueError", arg |-> "zero-size array"],
          ds |-> ds, value |-> NoValue]
    ELSE LET vbm_e == SetMax({SetMax(ValenceValues(ds, s)) : s \in SpinSet(ds)})
             cbm_e == SetMin({SetMin(ConductionValues(ds, s)) : s \in SpinSet(ds)})
         IN  [raised |-> NoError,
              ds |-> NormalizeWrites(ds, 1, vbm_e, cbm_e),
              value |-> [spin \in SpinSet(ds) |->
                           FillSlices(ds, spin,
                               EdgeDistances(SpinEnergiesCopy(ds, spin),
                                             ds.vb_idx[spin], vbm_e, cbm_e))]]

---------------------------------------------------------------------------
(* get_dos_effective_masses.  A mass is the cube root of a product of      *)
(* three integers and is kept as that product: [cbrt_of |-> product].      *)

DosMass(diag, i) ==
    [cbrt_of |-> Abs(diag.data[i \o <<0>>]) * Abs(diag.data[i \o <<1>>])
                 * Abs(diag.data[i \o <<2>>])]

get_dos_effective_masses(ds) ==
    [spin \in SpinSet(ds) |->
        LET spin_masses == TakeLast(DataRef(ds, "effective_mass", spin), ds.ir_kpoints_idx)
            masses_eig == Diagonal12(spin_masses)
        IN  [shape |-> <<masses_eig.shape[1], masses_eig.shape[2]>>,
             data |-> [i \in Idx(<<masses_eig.shape[1], masses_eig.shape[2]>>) |->
                          DosMass(masses_eig, i)],
             base |-> Own]]

---------------------------------------------------------------------------
(* AbstractBasicScattering.__init__                                        *)

SeqSet(q) == {q[i] : i \in 1 .. Len(q)}

\* materials_properties[p] for the first p of required that is absent
FirstMissing(required, props) ==
    required[CHOOSE i \in 1 .. Len(required) :
                /\ required[i] \notin DOMAIN props
                /\ \A j \in 1 .. (i - 1) : required[j] \in DOMAIN props]

\* a constructor that keeps the caller's whole mapping
KeepWholeMapping(required, props) == props

ExtractProperties(required, props) == [q \in SeqSet(required) |-> props[q]]

AbstractInit(name, required, props, ds) ==
    IF \E q \in SeqSet(required) : q \notin DOMAIN props
    THEN [raised |-> [type |-> "KeyError", arg |-> FirstMissing(required, props)],
          self |-> NoInstance]
    ELSE [raised |-> NoError,
          self |-> [name |-> name,
                    properties |-> ExtractProperties(required, props),
                    doping |-> ds.doping,
                    temperatures |-> ds.temperatures,
                    nbands |-> [s \in SpinSet(ds) |-> ds.energies[s].shape[1]],
                    spins |-> ds.spins]]

WithRates(self, rates) ==
    [name |-> self.name, properties |-> self.properties, doping |-> self.doping,
     temperatures |-> self.temperatures, nbands |-> self.nbands,
     spins |-> self.spins, rates |-> rates]

---------------------------------------------------------------------------
(* ConstantRelaxationTime.__init__                                         *)

\* shape = fermi_levels.shape + energies[s].shape
CRTShape(ds, s) == ds.fermi_levels.shape \o ds.energies[s].shape

\* a rate that is the relaxation time itself
CRTRateNotInverted(tau) == Rat(tau, 1)

\* rate = 1 / constant_relaxation_time
CRTRate(tau) == Rat(1, tau)

ConstantRelaxationTime(props, ds) ==
    LET base == AbstractInit("CRT", CRTRequired, props, ds)
    IN  IF base.raised # NoError THEN [raised |-> base.raised, self |-> NoInstance, ds |-> ds]
        ELSE IF base.self.properties["constant_relaxation_time"] = 0
        THEN [raised |-> [type |-> "ZeroDivisionError", arg |-> "division by zero"],
              self |-> NoInstance, ds |-> ds]
        ELSE [raised |-> NoError, ds |-> ds,
              self |-> WithRates(base.self,
                          [s \in SeqSet(base.self.spins) |->
                              NpFull(CRTShape(ds, s),
                                     CRTRate(base.self.properties["constant_relaxation_time"]))])]

---------------------------------------------------------------------------
(* MeanFreePathScattering.__init__                                         *)

\* mfp = mean_free_path * nm_to_bohr
MfpBohr(mean_free_path) == Rat(mean_free_path * NmToBohrNum, NmToBohrDen)

\* velocities left as they are
UnclampedVelocities(v) == v.data

\* v[v < 0.005] = 0.005, as the new contents of v
ClampedVelocities(v) ==
    [i \in Idx(v.shape) |-> IF v.data[i] < VelocityFloor THEN VelocityFloor ELSE v.data[i]]

\* v = norm(sqrt(diagonal(velocities_product[spin][..., ir_kpoints_idx])))
MFPVelocityNorms(ds, spin) ==
    NormAxis2(NpSqrt(Diagonal12(
        TakeLast(DataRef(ds, "velocities_product", spin), ds.ir_kpoints_idx))))

\* rates = velocities * Second / mfp, in units of Second * 1e-3
MFPRateArray(velocities, mfp) ==
    [shape |-> velocities.shape,
     data |-> [i \in Idx(velocities.shape) |->
                  Rat(velocities.data[i] * mfp.den, mfp.num)],
     base |-> Own]

\* rates left on the irreducible mesh
NoExpansion(rates, ds) == rates

\* rates spread over the full mesh by position, the mapping ignored
ExpandByPosition(rates, ds) ==
    [shape |-> Front(rates.shape) \o <<Len(ds.ir_to_full_kpoint_mapping)>>,
     data |-> [i \in Idx(Front(rates.shape) \o <<Len(ds.ir_to_full_kpoint_mapping)>>) |->
                  rates.data[Front(i) \o <<IF Last(i) < Last(rates.shape) THEN Last(i)
                                            ELSE Last(rates.shape) - 1>>]],
     base |-> Own]

\* self._rates[spin] = rates[..., ir_to_full_kpoint_mapping]
ExpandToFull(rates, ds) == TakeLast(rates, ds.ir_to_full_kpoint_mapping)

MFPSpinRates(ds, spin, self, mfp) ==
    LET v == MFPVelocityNorms(ds, spin)
        clamped == [shape |-> v.shape, data |-> ClampedVelocities(v), base |-> v.base]
        velocities == Tile4(clamped, Len(self.doping), Len(self.temperatures))
    IN  ExpandToFull(MFPRateArray(velocities, mfp), ds)

\* the dataset after the loop over spins[n..]: the clamp writes v in place
RECURSIVE MFPWrites(_, _)
MFPWrites(ds, n) ==
    IF n > Len(ds.spins) THEN ds
    ELSE LET v == MFPVelocityNorms(ds, ds.spins[n])
         IN  MFPWrites(WriteThrough(ds, v, ClampedVelocities(v)), n + 1)

MeanFreePathScattering(props, ds) ==
    LET base == AbstractInit("MFP", MFPRequired, props, ds)
    IN  IF base.raised # NoError THEN [raised |-> base.raised, self |-> NoInstance, ds |-> ds]
        ELSE [raised |-> NoError, ds |-> MFPWrites(ds, 1),
              self |-> WithRates(base.self,
                          [s \in SeqSet(base.self.spins) |->
                              MFPSpinRates(ds, s, base.self,
                                  MfpBohr(base.self.properties["mean_free_path"]))])]

---------------------------------------------------------------------------
(* IEEE floating point, by class.  A value is known by the set of classes  *)
(* it can fall in; sums of a positive and a negative number can fall in    *)
(* three.  Finite arithmetic is taken not to overflow or underflow, and a  *)
(* zero divisor is +0 (every divisor below is a sum or product of          *)
(* non-negative numbers).                                                  *)

ClsOf(n) == IF n > 0 THEN "pos" ELSE IF n < 0 THEN "neg" ELSE "zero"

Sign(a) == IF a \in {"neg", "ninf"} THEN -1 ELSE 1
IsInf(a) == a \in {"pinf", "ninf"}
InfOf(sg) == IF sg < 0 THEN "ninf" ELSE "pinf"
FinOf(sg) == IF sg < 0 THEN "neg" ELSE "pos"

MulCls(a, b) ==
    IF a = "nan" \/ b = "nan" THEN "nan"
    ELSE IF IsInf(a) \/ IsInf(b)
    THEN (IF a = "zero" \/ b = "zero" THEN "nan" ELSE InfOf(Sign(a) * Sign(b)))
    ELSE IF a = "zero" \/ b = "zero" THEN "zero"
    ELSE FinOf(Sign(a) * Sign(b))

DivCls(a, b) ==
    IF a = "nan" \/ b = "nan" THEN "nan"
    ELSE IF IsInf(a) THEN (IF IsInf(b) THEN "nan" ELSE InfOf(Sign(a) * Sign(b)))
    ELSE IF IsInf(b) THEN "zero"
    ELSE IF b = "zero" THEN (IF a = "zero" THEN "nan" ELSE InfOf(Sign(a)))
    ELSE IF a = "zero" THEN "zero"
    ELSE FinOf(Sign(a) * Sign(b))

AddCls(a, b) ==
    IF a = "nan" \/ b = "nan" THEN {"nan"}
    ELSE IF IsInf(a) THEN (IF IsInf(b) /\ a # b THEN {"nan"} ELSE {a})
    ELSE IF IsInf(b) THEN {b}
    ELSE IF a = "zero" THEN {b}
    ELSE IF b = "zero" THEN {a}
    ELSE IF a = b THEN {a}
    ELSE {"neg", "zero", "pos"}

NegCls(a) ==
    CASE a = "pos" -> "neg" [] a = "neg" -> "pos" [] a = "pinf" -> "ninf"
      [] a = "ninf" -> "pinf" [] OTHER -> a

\* np.log(1 + b)
Log1pCls(b) ==
    CASE b = "nan" -> {"nan"} [] b = "ninf" -> {"nan"} [] b = "pinf" -> {"pinf"}
      [] b = "pos" -> {"pos"} [] b = "zero" -> {"zero"}
      [] OTHER -> {"neg", "ninf", "nan"}

FMul(A, B) == {MulCls(a, b) : a \in A, b \in B}
FDiv(A, B) == {DivCls(a, b) : a \in A, b \in B}
FAdd(A, B) == UNION {AddCls(a, b) : a \in A, b \in B}
FSub(A, B) == UNION {AddCls(a, NegCls(b)) : a \in A, b \in B}
FSq(A) == {MulCls(a, a) : a \in A}
FLog1p(A) == UNION {Log1pCls(a) : a \in A}
Positive == {"pos"}

\* a floating point value: its classes and the operands that determine it;
\* every exact zero is the same value
Float(cls, args) ==
    IF cls = {"zero"} THEN [cls |-> {"zero"}, args |-> <<>>]
    ELSE [cls |-> cls, args |-> args]

FloatZero == Float({"zero"}, <<>>)

---------------------------------------------------------------------------
(* BrooksHerringScattering.__init__                                        *)

\* impurity_concentration[n, t] = |n_conc| * donor_charge^2 + |p_conc| * acceptor_charge^2
ImpurityConcentration(ds, properties, n, t) ==
    Abs(ds.electron_conc.data[<<n, t>>]) * properties["donor_charge"] * properties["donor_charge"]
    + Abs(ds.hole_conc.data[<<n, t>>])
      * properties["acceptor_charge"] * properties["acceptor_charge"]

\* prefactor = impurity_concentration * 8 * pi * Second / static_dielectric ** 2
PrefactorCls(imp, eps) ==
    FDiv(FMul(FMul(FMul({ClsOf(imp)}, Positive), Positive), Positive), FSq({ClsOf(eps)}))

\* d_factor = 1 + (2 * screening * c ** 2 / k_sq)
\*              + (3 * screening ** 2 * c ** 4 / (4 * k_sq ** 2))
DFactorCls(s, c, k_sq) ==
    FAdd(FAdd(Positive, FDiv(FMul(FMul(Positive, s), FSq(c)), k_sq)),
         FDiv(FMul(FMul(Positive, FSq(s)), FSq(FSq(c))), FMul(Positive, FSq(k_sq))))

\* b_factor = (4 * k_sq / screening) / (1 + 4 * k_sq / screening)
\*     + (8 * c ** 2 * (screening + 2 * k_sq) / (screening + 4 * k_sq))
\*     + (c ** 4 * (3 * screening ** 2 + 6 * screening * k_sq - 8 * k_sq ** 2)
\*        / ((screening + 4 * k_sq) * k_sq))
BFactorCls(s, c, k_sq) ==
    LET four_k_over_s == FDiv(FMul(Positive, k_sq), s)
        s_plus_4k == FAdd(s, FMul(Positive, k_sq))
    IN  FAdd(FAdd(FDiv(four_k_over_s, FAdd(Positive, four_k_over_s)),
                  FDiv(FMul(FMul(Positive, FSq(c)), FAdd(s, FMul(Positive, k_sq))),
                       s_plus_4k)),
             FDiv(FMul(FSq(FSq(c)),
                       FSub(FAdd(FMul(Positive, FSq(s)), FMul(FMul(Positive, s), k_sq)),
                            FMul(Positive, FSq(k_sq)))),
                  FMul(s_plus_4k, k_sq)))

\* prefactor * (d_factor * np.log(1 + b) - b_factor) / (velocities * k_sq)
\* with k_sq = 2 * masses * energies and b = (4 * k_sq) / screening
BHClosedForm(imp, eps, s, m, e, c, v) ==
    LET k_sq == FMul(FMul(Positive, {ClsOf(m.cbrt_of)}), {ClsOf(e)})
        scr == {ClsOf(s)}
        cc == {ClsOf(c)}
        b == FDiv(FMul(Positive, k_sq), scr)
    IN  FDiv(FMul(PrefactorCls(imp, eps),
                  FSub(FMul(DFactorCls(scr, cc, k_sq), FLog1p(b)), BFactorCls(scr, cc, k_sq))),
             FMul({ClsOf(v.n)}, k_sq))

\* the zeroing steps left out
KeepNan(x) == x
KeepBelowEdge(x, e) == x

\* self._rates[spin][np.isnan(self.rates[spin])] = 0, for one entry
ZeroIfNan(x) ==
    IF "nan" \in x.cls THEN Float((x.cls \ {"nan"}) \cup {"zero"}, x.args) ELSE x

\* self.rates[spin][energies < 1e-8] = 0, for one entry
ZeroIfBelowEdge(x, e) == IF e < EnergyZeroThreshold THEN FloatZero ELSE x

\* v = norm(sqrt(diagonal(...))) / np.sqrt(3): the number n / sqrt(r)
BHVelocities(ds, spin) ==
    LET v == MFPVelocityNorms(ds, spin)
    IN  [shape |-> v.shape,
         data |-> [i \in Idx(v.shape) |-> [n |-> v.data[i], r |-> 3]],
         base |-> Own]

\* v[v < 0.005] = 0.005, as the new contents of v
BHClampedVelocities(v) ==
    [i \in Idx(v.shape) |->
        IF v.data[i].n * v.data[i].n < VelocityFloor * VelocityFloor * v.data[i].r
        THEN [n |-> VelocityFloor, r |-> 1] ELSE v.data[i]]

\* numpy broadcasting of two leading (doping, temperature) shapes
Broadcastable(x, y) == \A j \in 1 .. 2 : x[j] = y[j] \/ x[j] = 1 \/ y[j] = 1
BroadcastShape(x, y) == [j \in 1 .. 2 |-> IF x[j] = 1 THEN y[j] ELSE x[j]]
\* the entry of an array with leading shape sh that index <<n, t>> of the
\* broadcast result reads
BIdx(sh, n, t) == <<IF sh[1] = 1 THEN 0 ELSE n, IF sh[2] = 1 THEN 0 ELSE t>>

Fits(x, y) == x[1] <= y[1] /\ x[2] <= y[2]

\* impurity_concentration = np.zeros(fermi_levels.shape), filled over the
\* index set of inverse_screening_length_sq
ImpurityArray(ds, properties, scr) ==
    [shape |-> ds.fermi_levels.shape,
     data |-> [i \in Idx(ds.fermi_levels.shape) |->
                  IF i \in Idx(scr.shape)
                  THEN ImpurityConcentration(ds, properties, i[1], i[2]) ELSE 0],
     base |-> Own]

\* the leading (doping, temperature) shape the operands broadcast to
BHLeadShape(ds, scr) ==
    BroadcastShape(BroadcastShape(<<Len(ds.doping), Len(ds.temperatures)>>,
                                  ds.fermi_levels.shape), scr.shape)

\* the closed form at entry i = <<n, t, band, ir k-point>> of one spin, before
\* the zeroing steps
BHRawEntry(ds, spin, properties, scr, normalized_energies, dos_effective_masses, i) ==
    LET f == BIdx(ds.fermi_levels.shape, i[1], i[2])
        g == BIdx(scr.shape, i[1], i[2])
        bk == <<i[3], i[4]>>
        imp == ImpurityArray(ds, properties, scr).data[f]
        eps == properties["static_dielectric"]
        s == scr.data[g]
        m == dos_effective_masses[spin].data[bk]
        e == normalized_energies[spin].data[f \o bk]
        c == TakeLast(DataRef(ds, "c_factor", spin), ds.ir_kpoints_idx).data[bk]
        v == BHClampedVelocities(BHVelocities(ds, spin))[bk]
    IN  Float(BHClosedForm(imp, eps, s, m, e, c, v), <<imp, eps, s, m, e, c, v>>)

\* the rates of one spin on the irreducible mesh, after both zeroing steps
BHIrRates(ds, spin, self, scr, normalized_energies, dos_effective_masses) ==
    LET shape == BHLeadShape(ds, scr)
                 \o <<dos_effective_masses[spin].shape[1], dos_effective_masses[spin].shape[2]>>
    IN  [shape |-> shape,
         data |-> [i \in Idx(shape) |->
            ZeroIfBelowEdge(
                ZeroIfNan(BHRawEntry(ds, spin, self.properties, scr, normalized_energies,
                                     dos_effective_masses, i)),
                normalized_energies[spin].data[BIdx(ds.fermi_levels.shape, i[1], i[2])
                                               \o <<i[3], i[4]>>])],
         base |-> Own]

\* the dataset after the loop over spins[n..]: the clamp writes v in place
RECURSIVE BHWrites(_, _)
BHWrites(ds, n) ==
    IF n > Len(ds.spins) THEN ds
    ELSE LET v == BHVelocities(ds, ds.spins[n])
         IN  BHWrites(WriteThrough(ds, v, BHClampedVelocities(v)), n + 1)

BrooksHerringScattering(props, ds, scr) ==
    LET base == AbstractInit("IMP", IMPRequired, props, ds)
        gne == get_normalized_energies(ds)
        grid == <<Len(ds.doping), Len(ds.temperatures)>>
    IN  IF base.raised # NoError THEN [raised |-> base.raised, self |-> NoInstance, ds |-> ds]
        ELSE IF ~(/\ Fits(scr.shape, ds.electron_conc.shape)
                  /\ Fits(scr.shape, ds.hole_conc.shape)
                  /\ Fits(scr.shape, ds.fermi_levels.shape))
        THEN [raised |-> [type |-> "IndexError", arg |-> "index out of bounds"],
              self |-> NoInstance, ds |-> ds]
        ELSE IF gne.raised # NoError
        THEN [raised |-> gne.raised, self |-> NoInstance, ds |-> gne.ds]
        ELSE IF ~(/\ Broadcastable(grid, ds.fermi_levels.shape)
                  /\ Broadcastable(BroadcastShape(grid, ds.fermi_levels.shape), scr.shape))
        THEN [raised |-> [type |-> "ValueError", arg |-> "operands could not be broadcast"],
              self |-> NoInstance, ds |-> gne.ds]
        ELSE IF BHLeadShape(ds, scr) # ds.fermi_levels.shape
        THEN [raised |-> [type |-> "IndexError", arg |-> "boolean index did not match"],
              self |-> NoInstance, ds |-> BHWrites(gne.ds, 1)]
        ELSE [raised |-> NoError, ds |-> BHWrites(gne.ds, 1),
              self |-> WithRates(base.self,
                          [s \in SeqSet(base.self.spins) |->
                              ExpandToFull(
                                  BHIrRates(gne.ds, s, base.self, scr, gne.value,
                                            get_dos_effective_masses(gne.ds)),
                                  gne.ds)])]

---------------------------------------------------------------------------
(* The inputs the calls are made with                                      *)

AllKeys ==
    {"constant_relaxation_time", "mean_free_path", "acceptor_charge", "donor_charge",
     "static_dielectric", "deformation_potential"}

DefaultProperties ==
    [q \in AllKeys |->
        CASE q = "constant_relaxation_time" -> 2
          [] q = "mean_free_path" -> 3
          [] q = "acceptor_charge" -> 1
          [] q = "donor_charge" -> 1
          [] q = "static_dielectric" -> 2
          [] OTHER -> 9]

Restrict(f, S) == [x \in S |-> f[x]]

\* the irreducible k-points, increasing, and for each full k-point the
\* position of its representative; a representative represents itself
IrSets == {q \in UNION {[1 .. n -> 0 .. (NumKpoints - 1)] : n \in 1 .. NumKpoints} :
              \A i \in 1 .. (Len(q) - 1) : q[i] < q[i + 1]}
AnyMeshes ==
    UNION {{[ir |-> q, map |-> m] : m \in [1 .. NumKpoints -> 0 .. (Len(q) - 1)]} : q \in IrSets}
SelfRepresenting(ir, map) == \A j \in 1 .. Len(ir) : map[ir[j] + 1] = j - 1
Meshes == {m \in AnyMeshes : SelfRepresenting(m.ir, m.map)}

DefaultMesh ==
    [ir |-> <<0, NumKpoints - 1>>,
     map |-> [k \in 1 .. NumKpoints |-> IF k = NumKpoints THEN 1 ELSE 0]]

DefaultScenario ==
    [nspins |-> 2, nd |-> 2, nt |-> 1, ir |-> DefaultMesh.ir, map |-> DefaultMesh.map,
     eshift |-> 0, vshift |-> 0, mshift |-> 0, cshift |-> 0, nshift |-> 0, sshift |-> 0,
     metal |-> FALSE, vb |-> <<0, 0>>, ifl |-> 0,
     fshape |-> <<2, 1>>, cshape |-> <<2, 1>>, props |-> DefaultProperties]

\* fermi_levels, electron_conc and hole_conc shaped (ndoping, ntemperatures)
Conforming(p) == [p EXCEPT !.fshape = <<p.nd, p.nt>>, !.cshape = <<p.nd, p.nt>>]

GridScenarios ==
    {[DefaultScenario EXCEPT !.nspins = ns, !.nd = nd, !.nt = nt] :
        ns \in 1 .. Len(SpinNames), nd \in 1 .. MaxDoping, nt \in 1 .. MaxTemps}
    \cup
    {[DefaultScenario EXCEPT !.nspins = ns, !.ir = m.ir, !.map = m.map] :
        ns \in 1 .. Len(SpinNames), m \in Meshes}

EnergyScenarios ==
    {[DefaultScenario EXCEPT !.nspins = ns, !.eshift = e, !.vb = vb, !.metal = mt, !.ifl = f] :
        ns \in 1 .. Len(SpinNames), e \in 0 .. (Len(ValenceOffsets) - 1),
        vb \in [1 .. Len(SpinNames) -> 0 .. (NumBands - 1)], mt \in BOOLEAN,
        f \in {0, 3}}

VelocityScenarios ==
    {[DefaultScenario EXCEPT !.vshift = v, !.ir = m.ir, !.map = m.map] :
        v \in 0 .. (Len(VelocityVectors) - 1), m \in Meshes}

ImpurityScenarios ==
    {[DefaultScenario EXCEPT !.mshift = ms, !.cshift = cs, !.nshift = ns, !.sshift = ss] :
        ms \in 0 .. (Len(MassDiagonals) - 1), cs \in 0 .. (Len(CFactors) - 1),
        ns \in 0 .. (Len(ElectronConcs) - 1), ss \in 0 .. (Len(ScreeningValues) - 1)}

KeyScenarios ==
    {[DefaultScenario EXCEPT !.props = Restrict(DefaultProperties, K)] : K \in SUBSET AllKeys}

ValueScenarios ==
    {[DefaultScenario EXCEPT !.props =
        [DefaultProperties EXCEPT !["constant_relaxation_time"] = tau,
                                  !["mean_free_path"] = mfp]] :
        tau \in {-1, 0, 1, 4}, mfp \in {-2, 0, 1, 3}}
    \cup
    {[DefaultScenario EXCEPT !.props =
        [DefaultProperties EXCEPT !["acceptor_charge"] = za, !["donor_charge"] = zd,
                                  !["static_dielectric"] = eps]] :
        za \in {0, 1, -2}, zd \in {0, 1}, eps \in {0, 1, 2}}

Scenarios ==
    {Conforming(p) : p \in GridScenarios \cup EnergyScenarios \cup VelocityScenarios
                           \cup ImpurityScenarios \cup KeyScenarios \cup ValueScenarios}

\* datasets whose mapping need not send a representative to itself
AnyMapScenarios ==
    {Conforming([DefaultScenario EXCEPT !.nspins = 1, !.vshift = v, !.ir = m.ir, !.map = m.map]) :
        v \in {0, 2}, m \in AnyMeshes}

\* datasets whose (doping, temperature) tensors need not be shaped
\* (ndoping, ntemperatures)
AnyShapeScenarios ==
    {[DefaultScenario EXCEPT !.nspins = 1, !.nd = nd, !.nt = nt, !.fshape = f, !.cshape = c] :
        nd \in 1 .. MaxDoping, nt \in 1 .. MaxTemps,
        f \in (1 .. (MaxDoping + 1)) \X (1 .. (MaxTemps + 1)),
        c \in (1 .. (MaxDoping + 1)) \X (1 .. (MaxTemps + 1))}

\* calculate_inverse_screening_length_sq(amset_data, static_dielectric): a
\* (ndoping, ntemperatures) array of non-negative numbers
InverseScreeningLengthSq(p) == GridArray(<<p.nd, p.nt>>, ScreeningValues, p.sshift)

InitFrom(p) ==
    /\ amset_data = MkDataset(p)
    /\ materials_properties = p.props
    /\ screening_sq = InverseScreeningLengthSq(p)
    /\ op = "none"
    /\ inst = NoInstance
    /\ raised = NoError
    /\ ret = NoValue

Init == \E p \in Scenarios : InitFrom(p)
InitAnyMap == \E p \in AnyMapScenarios : InitFrom(p)
InitAnyShape == \E p \in AnyShapeScenarios : InitFrom(p)

---------------------------------------------------------------------------
(* The operations                                                          *)

Finish(name, r) ==
    /\ op' = name
    /\ inst' = r.self
    /\ raised' = r.raised
    /\ amset_data' = r.ds
    /\ ret' = NoValue
    /\ UNCHANGED <<materials_properties, screening_sq>>

ConstructCRT == Finish("CRT", ConstantRelaxationTime(materials_properties, amset_data))

ConstructMFP == Finish("MFP", MeanFreePathScattering(materials_properties, amset_data))

ConstructIMP ==
    Finish("IMP", BrooksHerringScattering(materials_properties, amset_data, screening_sq))

CallGetNormalizedEnergies ==
    LET r == get_normalized_energies(amset_data)
    IN  /\ op' = "get_normalized_energies"
        /\ inst' = NoInstance
        /\ raised' = r.raised
        /\ amset_data' = r.ds
        /\ ret' = IF r.raised = NoError THEN [kind |-> "energies", value |-> r.value]
                  ELSE NoValue
        /\ UNCHANGED <<materials_properties, screening_sq>>

CallGetDosEffectiveMasses ==
    /\ op' = "get_dos_effective_masses"
    /\ inst' = NoInstance
    /\ raised' = NoError
    /\ ret' = [kind |-> "masses", value |-> get_dos_effective_masses(amset_data)]
    /\ UNCHANGED <<amset_data, materials_properties, screening_sq>>

Next ==
    \/ ConstructCRT
    \/ ConstructMFP
    \/ ConstructIMP
    \/ CallGetNormalizedEnergies
    \/ CallGetDosEffectiveMasses

Spec == Init /\ [][Next]_vars
SpecAnyMap == InitAnyMap /\ [][Next]_vars
SpecAnyShape == InitAnyShape /\ [][Next]_vars

---------------------------------------------------------------------------
(* Properties                                                              *)

RequiredFor(mechanism) ==
    CASE mechanism = "CRT" -> CRTRequired
      [] mechanism = "MFP" -> MFPRequired
      [] mechanism = "IMP" -> IMPRequired

IsConstructor == op \in {"CRT", "MFP", "IMP"}
Constructed == inst # NoInstance
Grid == <<Len(amset_data.doping), Len(amset_data.temperatures)>>

\* the properties of an instance are the declared keys with the caller's values
DeclaredPropertiesOnly ==
    Constructed =>
        /\ DOMAIN inst.properties = SeqSet(RequiredFor(op))
        /\ \A q \in SeqSet(RequiredFor(op)) : inst.properties[q] = materials_properties[q]

\* C1 as stated: a constructor given a mapping that lacks a required key
\* fails with a MissingPropertyError and produces no instance; given every
\* required key, the instance holds exactly the declared keys with the
\* caller's values.
C1_MissingPropertyError ==
    IsConstructor =>
        /\ ~(SeqSet(RequiredFor(op)) \subseteq DOMAIN materials_properties) =>
              raised.type = "MissingPropertyError" /\ ~Constructed
        /\ DeclaredPropertiesOnly

\* C1 amended: the failure is the mapping's own KeyError, for the first
\* required key (in declaration order) that is absent; no instance is
\* produced; otherwise the instance holds exactly the declared keys with the
\* caller's values.
C1_KeyError ==
    IsConstructor =>
        /\ ~(SeqSet(RequiredFor(op)) \subseteq DOMAIN materials_properties) =>
              /\ raised.type = "KeyError"
              /\ ~Constructed
              /\ \E i \in 1 .. Len(RequiredFor(op)) :
                    /\ raised.arg = RequiredFor(op)[i]
                    /\ raised.arg \notin DOMAIN materials_properties
                    /\ \A j \in 1 .. (i - 1) :
                          RequiredFor(op)[j] \in DOMAIN materials_properties
        /\ DeclaredPropertiesOnly

C1_Witness ==
    /\ op = "IMP"
    /\ "acceptor_charge" \in DOMAIN materials_properties
    /\ "donor_charge" \notin DOMAIN materials_properties
    /\ "static_dielectric" \notin DOMAIN materials_properties
    /\ "deformation_potential" \in DOMAIN materials_properties
    /\ raised = [type |-> "KeyError", arg |-> "donor_charge"]
    /\ ~Constructed

\* C2: after any construction, rates has an entry for every spin of the
\* dataset, shaped (len(doping), len(temperatures), nbands[spin], number of
\* k-points of energies[spin]): the last axis is the full mesh.
C2_RatesShape ==
    Constructed =>
        /\ DOMAIN inst.rates = SpinSet(amset_data)
        /\ \A s \in SpinSet(amset_data) :
              /\ inst.nbands[s] = amset_data.energies[s].shape[1]
              /\ inst.rates[s].shape
                    = Grid \o <<inst.nbands[s], amset_data.energies[s].shape[2]>>
              /\ DOMAIN inst.rates[s].data
                    = Idx(Grid \o <<inst.nbands[s], amset_data.energies[s].shape[2]>>)

C2_Witness ==
    /\ inst.name = "IMP"
    /\ Len(amset_data.ir_kpoints_idx) < amset_data.energies["up"].shape[2]
    /\ Len(amset_data.spins) = 2
    /\ inst.rates["down"].shape = <<2, 1, NumBands, NumKpoints>>

\* C4: every entry of every spin's rates of a ConstantRelaxationTime is
\* 1 / tau, whatever the dataset holds.
C4_UniformRate ==
    inst.name = "CRT" =>
        \A s \in SpinSet(amset_data) :
            \A i \in Idx(Grid \o amset_data.energies[s].shape) :
                /\ inst.rates[s].data[i].den # 0
                /\ inst.rates[s].data[i].num * materials_properties["constant_relaxation_time"]
                      = inst.rates[s].data[i].den

C4_Witness ==
    /\ inst.name = "CRT"
    /\ materials_properties["constant_relaxation_time"] = 4
    /\ inst.rates["down"].data[<<1, 0, 1, 2>>] = [num |-> 1, den |-> 4]
    /\ amset_data.energies["down"].data[<<1, 2>>] # amset_data.energies["down"].data[<<0, 0>>]

ShapesAgree ==
    /\ amset_data.fermi_levels.shape = Grid
    /\ amset_data.electron_conc.shape = amset_data.fermi_levels.shape
    /\ amset_data.hole_conc.shape = amset_data.fermi_levels.shape

\* C3: constructing a mechanism from a dataset whose fermi_levels,
\* electron_conc or hole_conc disagree in shape with the doping and
\* temperature grids fails with an InconsistentShapeError, and no rates are
\* produced.  (No constructor checks these shapes: ConstantRelaxationTime
\* builds rates shaped fermi_levels.shape + energies[spin].shape.)
C3_InconsistentShapeError ==
    (IsConstructor /\ ~ShapesAgree) =>
        raised.type = "InconsistentShapeError" /\ ~Constructed

\* the irreducible position of full k-point k
Representative(k) == amset_data.ir_to_full_kpoint_mapping[k + 1]

\* C5: every entry of a BrooksHerringScattering rate whose normalized energy
\* (get_normalized_energies at the k-point's irreducible representative) is
\* below 1e-8 is exactly 0, whatever the closed form gives there and in
\* whichever order the two zeroing steps run.
C5_ZeroBelowEdge ==
    inst.name = "IMP" =>
        \A s \in SpinSet(amset_data) :
            \A i \in Idx(inst.rates[s].shape) :
                LET ne == get_normalized_energies(amset_data).value
                    j == <<i[1], i[2], i[3], Representative(i[4])>>
                IN  ne[s].data[j] < EnergyZeroThreshold =>
                        /\ inst.rates[s].data[i].cls = {"zero"}
                        /\ ZeroIfNan(ZeroIfBelowEdge(
                               BHRawEntry(amset_data, s, inst.properties, screening_sq, ne,
                                          get_dos_effective_masses(amset_data), j),
                               ne[s].data[j])).cls = {"zero"}

\* an entry of the irreducible mesh with its closed form and energy
RawAt(s, j) ==
    BHRawEntry(amset_data, s, inst.properties, screening_sq,
               get_normalized_energies(amset_data).value,
               get_dos_effective_masses(amset_data), j)
EnergyAtIr(s, j) == get_normalized_energies(amset_data).value[s].data[j]
IrEntries(s) ==
    Idx(Grid \o <<amset_data.energies[s].shape[1], Len(amset_data.ir_kpoints_idx)>>)

C5_Witness ==
    /\ inst.name = "IMP"
    /\ \E s \in SpinSet(amset_data) : \E j \in IrEntries(s) :
          /\ EnergyAtIr(s, j) > 0
          /\ EnergyAtIr(s, j) < EnergyZeroThreshold
          /\ RawAt(s, j).cls = {"neg", "zero", "pos"}
          /\ \E k \in 0 .. (NumKpoints - 1) :
                /\ Representative(k) = j[4]
                /\ inst.rates[s].data[<<j[1], j[2], j[3], k>>].cls = {"zero"}
    /\ \E s \in SpinSet(amset_data) : \E j \in IrEntries(s) :
          EnergyAtIr(s, j) = 0 /\ RawAt(s, j).cls = {"nan"}

\* C6: with a positive impurity concentration at every (doping, temperature)
\* and a positive static dielectric, no entry of a BrooksHerringScattering
\* rate is NaN.
C6_NoNaN ==
    (/\ inst.name = "IMP"
     /\ inst.properties["static_dielectric"] > 0
     /\ \A g \in Idx(Grid) :
           ImpurityConcentration(amset_data, inst.properties, g[1], g[2]) > 0) =>
        \A s \in SpinSet(amset_data) :
            \A i \in Idx(inst.rates[s].shape) : "nan" \notin inst.rates[s].data[i].cls

C6_Witness ==
    /\ inst.name = "IMP"
    /\ inst.properties["static_dielectric"] > 0
    /\ \A g \in Idx(Grid) :
          ImpurityConcentration(amset_data, inst.properties, g[1], g[2]) > 0
    /\ \E s \in SpinSet(amset_data) : \E j \in IrEntries(s) :
          /\ "nan" \in RawAt(s, j).cls
          /\ EnergyAtIr(s, j) >= EnergyZeroThreshold
          /\ \E k \in 0 .. (NumKpoints - 1) :
                /\ Representative(k) = j[4]
                /\ inst.rates[s].data[<<j[1], j[2], j[3], k>>].cls = {"zero"}

\* a full-mesh tensor restricted to ir_kpoints_idx and expanded again
RoundTrip(rates) ==
    TakeLast(TakeLast(rates, amset_data.ir_kpoints_idx), amset_data.ir_to_full_kpoint_mapping)

\* C7 as stated: for any ir_kpoints_idx and ir_to_full_kpoint_mapping the
\* constructor accepts, restricting the rates of MeanFreePathScattering or
\* BrooksHerringScattering to ir_kpoints_idx and expanding them again gives
\* the rates back at every full k-point.
C7_RoundTripAnyMapping ==
    inst.name \in {"MFP", "IMP"} =>
        \A s \in SpinSet(amset_data) : RoundTrip(inst.rates[s]).data = inst.rates[s].data

\* C7 amended: the round trip gives the rates back when every irreducible
\* k-point is its own representative, that is
\* ir_to_full_kpoint_mapping[ir_kpoints_idx[j]] = j for every j.
C7_RoundTripSelfRepresenting ==
    (/\ inst.name \in {"MFP", "IMP"}
     /\ SelfRepresenting(amset_data.ir_kpoints_idx, amset_data.ir_to_full_kpoint_mapping)) =>
        \A s \in SpinSet(amset_data) : RoundTrip(inst.rates[s]).data = inst.rates[s].data

C7_Witness ==
    /\ inst.name = "MFP"
    /\ amset_data.ir_kpoints_idx = <<0, NumKpoints - 1>>
    /\ SelfRepresenting(amset_data.ir_kpoints_idx, amset_data.ir_to_full_kpoint_mapping)
    /\ inst.rates["up"].data[<<0, 0, 1, 0>>] # inst.rates["up"].data[<<0, 0, 1, NumKpoints - 1>>]
    /\ inst.rates["up"].data[<<0, 0, 1, 0>>] = inst.rates["up"].data[<<0, 0, 1, 1>>]
    /\ RoundTrip(inst.rates["up"]).data = inst.rates["up"].data

\* the squared velocity magnitude at band b of the representative of k
SquaredSpeed(s, b, k) ==
    LET kk == amset_data.ir_kpoints_idx[Representative(k) + 1]
    IN  amset_data.velocities_product[s].data[<<b, 0, 0, kk>>]
        + amset_data.velocities_product[s].data[<<b, 1, 1, kk>>]
        + amset_data.velocities_product[s].data[<<b, 2, 2, kk>>]

\* x = n / (mean_free_path * nm_to_bohr), in units of Second * 1e-3
IsSpeedOverMfp(x, n) ==
    LET mfp == materials_properties["mean_free_path"]
    IN  IF mfp = 0 THEN x.den = 0 /\ x.num = 1
        ELSE x.den # 0 /\ x.num * (mfp * NmToBohrNum) = x.den * (n * NmToBohrDen)

\* C8: the MeanFreePathScattering rate of every band and full k-point whose
\* representative has a velocity magnitude below 0.005 is
\* 0.005 * Second / mfp at every (doping, temperature); with mfp > 0 no rate
\* is below that value, and none is negative.
C8_FloorRate ==
    inst.name = "MFP" =>
        \A s \in SpinSet(amset_data) :
            \A i \in Idx(inst.rates[s].shape) :
                /\ SquaredSpeed(s, i[3], i[4]) < VelocityFloor * VelocityFloor =>
                      IsSpeedOverMfp(inst.rates[s].data[i], VelocityFloor)
                /\ materials_properties["mean_free_path"] > 0 =>
                      /\ inst.rates[s].data[i].den > 0
                      /\ inst.rates[s].data[i].num >= 0
                      /\ inst.rates[s].data[i].num
                             * (materials_properties["mean_free_path"] * NmToBohrNum)
                         >= inst.rates[s].data[i].den * (VelocityFloor * NmToBohrDen)

C8_Witness ==
    /\ inst.name = "MFP"
    /\ materials_properties["mean_free_path"] = 3
    /\ \E s \in SpinSet(amset_data) : \E i \in Idx(inst.rates[s].shape) :
          /\ SquaredSpeed(s, i[3], i[4]) = 16
          /\ inst.rates[s].data[i] = [num |-> 5000, den |-> 56691]
    /\ \E s \in SpinSet(amset_data) : \E i \in Idx(inst.rates[s].shape) :
          /\ SquaredSpeed(s, i[3], i[4]) = 0
          /\ inst.rates[s].data[i] = [num |-> 5000, den |-> 56691]
    /\ \E s \in SpinSet(amset_data) : \E i \in Idx(inst.rates[s].shape) :
          /\ SquaredSpeed(s, i[3], i[4]) = 49
          /\ inst.rates[s].data[i] = [num |-> 7000, den |-> 56691]

\* the band edges over every spin and every k-point of the full mesh
GlobalVbm ==
    SetMax(UNION {{amset_data.energies[s].data[<<b, k>>] :
                      b \in 0 .. amset_data.vb_idx[s], k \in 0 .. (NumKpoints - 1)} :
                  s \in SpinSet(amset_data)})
GlobalCbm ==
    SetMin(UNION {{amset_data.energies[s].data[<<b, k>>] :
                      b \in (amset_data.vb_idx[s] + 1) .. (NumBands - 1),
                      k \in 0 .. (NumKpoints - 1)} :
                  s \in SpinSet(amset_data)})

C10_DatasetUnchanged == [][amset_data' = amset_data]_vars

C10_Witness ==
    /\ inst.name = "IMP"
    /\ ~amset_data.is_metal
    /\ \E i \in Idx(<<NumBands, Len(amset_data.ir_kpoints_idx)>>) :
          /\ MFPVelocityNorms(amset_data, "up").data[i] < VelocityFloor
          /\ BHClampedVelocities(BHVelocities(amset_data, "up"))[i] = [n |-> VelocityFloor, r |-> 1]
    /\ \E j \in IrEntries("up") : "nan" \in RawAt("up", j).cls
    /\ \E j \in IrEntries("up") :
          EnergyAtIr("up", j) > 0 /\ EnergyAtIr("up", j) < EnergyZeroThreshold

============================================================================
